---- MODULE Spec2Model ----
(***************************************************************************)
(* Sketch-Time server: the in-memory timer registry (activeTimers) of      *)
(* src/index.js with its setTimeout completion callbacks, and the          *)
(* uploads / sessions tables of the database module it calls.              *)
(*                                                                         *)
(* Node runs every handler on one event loop: a handler runs without       *)
(* interruption up to its next `await`, where other handlers and timer     *)
(* callbacks may run.  Each action below is one such uninterrupted run.    *)
(***************************************************************************)
EXTENDS Integers, FiniteSets, Sequences, TLC

(* ---------------------------- bounds ----------------------------------- *)
MaxTimers == 1         \* setTimeout handles created in one behaviour of Spec
ClockStep == 30000     \* granularity of the clock, in ms
MaxTicks == 2          \* clock advances in one behaviour of Spec
MaxUploads == 1        \* upload records in one behaviour
MaxStreakDay == 5      \* the last calendar day of an upload history of SpecDb
MaxPerDay == 2         \* uploads of one user on one day in SpecStats
MaxCalls == 3          \* calls of saveUpload that SpecConcurrent follows step by step
MaxSeconds == 62       \* seconds SpecCountdown follows the page's countdown for
MaxHistoryDay == 16    \* the last calendar day of an upload history of SpecHistory;
                       \* the first is as long before day 0 (the model counts days
                       \* from the day its clock starts at)

(* ---------------------- program constants ------------------------------ *)
MsPerSecond == 1000
SecondsPerMinute == 60
MsPerDay == 86400000
TIMEOUT_MAX == 2147483647
DefaultMinutes == 15
IntervalMs == 1000
HistoryLimit == 30

\* two users: the handlers treat all ids alike, two show what one user's
\* requests do to another's state
UserIds == {1, 2}
\* a request's userId: 0 stands for a missing (falsy) id
UserIdInputs == {0} \cup UserIds
\* the minutes of the page's preset buttons (data-minutes): the shortest timer
PresetMinutes == {1}
\* a request's duration in minutes: 0 stands for a missing (falsy) duration
DurationInputs == {-1, 0, 1}
\* the durations of the data model: positive whole minutes
ValidDurations == {d \in DurationInputs : d > 0}
\* SpecRace follows the timers of valid requests alone, over more handles and a
\* longer time: a second timer can expire while the first callback is suspended
MaxRaceTimers == MaxTimers + 2
MaxRaceTicks == MaxTicks + 2
TimeoutIds == 1 .. MaxRaceTimers
\* the clock starts one step before midnight (UTC) of day 0
StartOfClock == MsPerDay - ClockStep
EndOfClock == StartOfClock + MaxTicks * ClockStep
EndOfRaceClock == StartOfClock + MaxRaceTicks * ClockStep
EndOfCountdown == StartOfClock + MaxSeconds * IntervalMs
MaxDay == EndOfRaceClock \div MsPerDay
\* the user whose requests the session specification follows, and who has
\* the upload history in SpecDb
SessionUsers == {1}
\* the calendar days of the upload histories the database functions are run on
StreakDays == 0 .. MaxStreakDay
Days == 0 .. MaxDay
\* the calendar days of the long histories, more of them than recentHistory holds
HistoryDays == (0 - MaxHistoryDay) .. MaxHistoryDay
\* the days a long history may lack, and the days it may have two uploads on
HistoryGaps == {0 - MaxHistoryDay, 1 - MaxHistoryDay, 2 - MaxHistoryDay,
                MaxHistoryDay - 1, MaxHistoryDay}
HistoryDoubles == {0 - MaxHistoryDay, 0, MaxHistoryDay}

VARIABLES
    now,             \* Date.now(), ms
    activeTimers,    \* Map userId -> {duration, startTime, endTime, timeoutId}
    timeouts,        \* the handles returned by setTimeout and their callbacks
    nextTimeoutId,   \* the next handle setTimeout returns
    survivedCancel,  \* handles still scheduled for a user when cancel(u) returned success
    uploads,         \* uploads table: number of rows per (user_id, upload_date)
    sessions,        \* sessions table: set of (user_id, session_date)
    uploadReq,       \* per user: the /upload request in flight and where it is suspended
    photoReq,        \* per user: the bot photo update in flight and where it is suspended
    doneReq,         \* per user: the /done request in flight and where it is suspended
    statsTable,      \* stats table of src/database.js: userId -> row
    client,          \* the SketchTimer object of the page of src/public/app.js
    saveCalls,       \* the calls of saveUpload of src/database.js and where each stands
    enabledOn,       \* history: the day the page's upload button was last seen enabled
    resp             \* what the last step was and the response it sent

vars == <<now, activeTimers, timeouts, nextTimeoutId, survivedCancel,
          uploads, sessions, uploadReq, photoReq, doneReq, statsTable, client, saveCalls, enabledOn, resp>>

(* ------------------------- pure helpers -------------------------------- *)
\* new Date().toISOString().split('T')[0]: the UTC calendar day of the clock
Today == now \div MsPerDay

\* Math.max(a, b)
Max(a, b) == IF a >= b THEN a ELSE b

\* (mutant) the conversion to milliseconds forgets the factor 1000
DurationMsSeconds(duration) == duration * SecondsPerMinute

\* const durationMs = duration * 60 * 1000
DurationMs(duration) == duration * SecondsPerMinute * MsPerSecond

\* the delay setTimeout really uses: below 1 or above TIMEOUT_MAX it is 1
TimeoutDelay(ms) == IF ms < 1 \/ ms > TIMEOUT_MAX THEN 1 ELSE ms

\* (mutant) the remaining time is not clamped at 0
RemainingMsUnclamped(endTime, t) == endTime - t

\* Math.max(0, timerData.endTime - now)
RemainingMs(endTime, t) == Max(0, endTime - t)

\* Map.prototype.has / delete / set
MapHas(m, k) == k \in DOMAIN m
MapDelete(m, k) == [x \in DOMAIN m \ {k} |-> m[x]]
MapSet(m, k, v) == [x \in DOMAIN m \cup {k} |-> IF x = k THEN v ELSE m[x]]

\* a handle whose callback is not scheduled: only its fate is left of it, and
\* the user its callback is working for while it runs
Finished(user, state) == [user |-> user, duration |-> 0, due |-> 0, state |-> state]

UnusedTimeout == Finished(0, "unused")

\* (mutant) the handle is not retracted
ClearTimeoutNoop(ts, id) == ts

\* clearTimeout(id): retracts a pending callback, does nothing to one that has run
ClearTimeout(ts, id) ==
    IF ts[id].state = "pending" THEN [ts EXCEPT ![id] = Finished(0, "cleared")] ELSE ts

\* (mutant) the handle of every entry of the registry is retracted
ClearEveryTimeout(ts, m, u) ==
    [id \in DOMAIN ts |->
        IF ts[id].state = "pending" /\ \E x \in DOMAIN m : m[x].timeoutId = id
        THEN Finished(0, "cleared") ELSE ts[id]]

\* clearTimeout(activeTimers.get(u).timeoutId) under `if (activeTimers.has(u))`
ClearUserTimeout(ts, m, u) ==
    IF MapHas(m, u) THEN ClearTimeout(ts, m[u].timeoutId) ELSE ts


\* a response without a stats body
NoStats == <<>>

\* what a step answers: the status and body of the response, with the request's
\* user and (for start) duration; for cancel, hasActiveTimer tells that the
\* handler found an entry (and logged "Timer cancelled"); for a direct call of
\* a database function, stats is what it returned, uploadDates the list it was
\* given and conflict tells that the upsert met a row of the same key
Response(op, user, status) ==
    [op |-> op, user |-> user, status |-> status, success |-> status = 200,
     hasActiveTimer |-> FALSE, duration |-> 0, startTime |-> 0, endTime |-> 0,
     remainingMs |-> 0, isExpired |-> FALSE,
     stats |-> NoStats, uploadDates |-> <<>>, conflict |-> FALSE]

\* a step that answers no request
NoResponse == Response("none", 0, 0)

IdleUpload == [pc |-> "idle", day |-> 0]

\* SELECT COUNT(*) FROM uploads WHERE user_id = u AND upload_date = day, > 0
HasUploadedToday(upl, u, day) == upl[<<u, day>>] > 0

\* (mutant) a conflicting row is deleted instead of being updated
MarkSessionCompleteDropping(sess, u, day) ==
    IF <<u, day>> \in sess THEN sess \ {<<u, day>>} ELSE sess \cup {<<u, day>>}

\* INSERT INTO sessions ... ON CONFLICT (user_id, session_date) DO UPDATE SET
\* completed_at (INSERT OR REPLACE in the sqlite variant): a row of the same
\* key is rewritten, otherwise the row is added
MarkSessionComplete(sess, u, day) ==
    IF <<u, day>> \in sess THEN sess ELSE sess \cup {<<u, day>>}

\* markSessionComplete of src/database.js: "for now just noop"
MarkSessionCompleteStub(sess, u, day) == sess

(* ------------------------ the streak calculator ------------------------ *)
\* new Date('YYYY-MM-DD'): the instant of the UTC midnight that starts the day
DateOf(day) == day * MsPerDay

\* Date.prototype.toDateString(): the calendar day of an instant (server in UTC)
ToDateString(ms) == ms \div MsPerDay

\* Math.floor((prev - curr) / (1000 * 60 * 60 * 24))
DayDifference(prev, curr) == (prev - curr) \div MsPerDay

\* Array.prototype.sort((a, b) => b - a)
SortDescending(seq) ==
    LET RECURSIVE Sorted(_)
        Sorted(q) ==
            IF q = <<>> THEN <<>>
            ELSE LET x == Head(q)
                     rest == Sorted(Tail(q))
                 IN SelectSeq(rest, LAMBDA y : y > x) \o <<x>>
                       \o SelectSeq(rest, LAMBDA y : y <= x)
    IN Sorted(seq)

\* ORDER BY upload_date DESC over a set of distinct days
OrderByDesc(S) ==
    LET RECURSIVE Desc(_)
        Desc(T) == IF T = {} THEN <<>>
                   ELSE LET m == CHOOSE x \in T : \A y \in T : y <= x
                        IN <<m>> \o Desc(T \ {m})
    IN Desc(S)

\* (mutant) the loop goes on counting after a gap
CurrentStreakLoopNoBreak(dates) ==
    LET RECURSIVE Loop(_, _)
        Loop(i, currentStreak) ==
            IF i > Len(dates) THEN currentStreak
            ELSE IF DayDifference(dates[i - 1], dates[i]) = 1
                 THEN Loop(i + 1, currentStreak + 1)
                 ELSE Loop(i + 1, currentStreak)
    IN Loop(2, 1)

\* currentStreak = 1; for (i = 1; ...) if (diff === 1) currentStreak++ else break
CurrentStreakLoop(dates) ==
    LET RECURSIVE Loop(_, _)
        Loop(i, currentStreak) ==
            IF i > Len(dates) THEN currentStreak
            ELSE IF DayDifference(dates[i - 1], dates[i]) = 1
                 THEN Loop(i + 1, currentStreak + 1)
                 ELSE currentStreak
    IN Loop(2, 1)

\* (mutant) longestStreak starts at 0 and is only raised inside the loop
LongestStreakLoopFromZero(dates) ==
    LET RECURSIVE Loop(_, _, _)
        Loop(i, tempStreak, longestStreak) ==
            IF i > Len(dates) THEN longestStreak
            ELSE IF DayDifference(dates[i - 1], dates[i]) = 1
                 THEN Loop(i + 1, tempStreak + 1, Max(longestStreak, tempStreak + 1))
                 ELSE Loop(i + 1, 1, longestStreak)
    IN Loop(2, 1, 0)

\* (mutant) tempStreak is not reset at a gap
LongestStreakLoopNoReset(dates) ==
    LET RECURSIVE Loop(_, _, _)
        Loop(i, tempStreak, longestStreak) ==
            IF i > Len(dates) THEN longestStreak
            ELSE IF DayDifference(dates[i - 1], dates[i]) = 1
                 THEN Loop(i + 1, tempStreak + 1, Max(longestStreak, tempStreak + 1))
                 ELSE Loop(i + 1, tempStreak, longestStreak)
    IN Loop(2, 1, 1)

\* longestStreak = 1, tempStreak = 1; for (i = 1; ...) if (diff === 1)
\* { tempStreak++; longestStreak = Math.max(...) } else tempStreak = 1
LongestStreakLoop(dates) ==
    LET RECURSIVE Loop(_, _, _)
        Loop(i, tempStreak, longestStreak) ==
            IF i > Len(dates) THEN longestStreak
            ELSE IF DayDifference(dates[i - 1], dates[i]) = 1
                 THEN Loop(i + 1, tempStreak + 1, Max(longestStreak, tempStreak + 1))
                 ELSE Loop(i + 1, 1, longestStreak)
    IN Loop(2, 1, 1)

\* (mutant) a day next to the one looked for counts as found
IncludesNear(seq, x) == \E i \in 1 .. Len(seq) : seq[i] \in {x - 1, x}

\* Array.prototype.includes
Includes(seq, x) == \E i \in 1 .. Len(seq) : seq[i] = x

\* calculateStreaks(uploadDates), with the day it reads from the clock
CalculateStreaks(uploadDates, today) ==
    IF Len(uploadDates) = 0
    THEN [currentStreak |-> 0, longestStreak |-> 0, hasUploadedToday |-> FALSE]
    ELSE LET hasUploadedToday == Includes(uploadDates, today)
             dates == SortDescending([i \in 1 .. Len(uploadDates) |-> DateOf(uploadDates[i])])
             lastUpload == dates[1]
             todayDate == DateOf(today)
             yesterdayDate == todayDate - MsPerDay
             currentStreak ==
                 IF \/ ToDateString(lastUpload) = ToDateString(todayDate)
                    \/ ToDateString(lastUpload) = ToDateString(yesterdayDate)
                 THEN CurrentStreakLoop(dates) ELSE 0
             longestStreak == LongestStreakLoop(dates)
         IN [currentStreak |-> currentStreak, longestStreak |-> longestStreak,
             hasUploadedToday |-> hasUploadedToday]

\* the days on which the uploads table has a row of the user
UploadDays(upl, u) == {k[2] : k \in {x \in DOMAIN upl : x[1] = u /\ upl[x] > 0}}

\* SELECT DISTINCT upload_date FROM uploads WHERE user_id = u ORDER BY upload_date DESC
DistinctUploadDates(upl, u) == OrderByDesc(UploadDays(upl, u))

\* SELECT COUNT(*) FROM uploads WHERE user_id = u
TotalUploads(upl, u) ==
    LET RECURSIVE Rows(_)
        Rows(keys) == IF keys = {} THEN 0
                      ELSE LET k == CHOOSE x \in keys : TRUE
                           IN upl[k] + Rows(keys \ {k})
    IN Rows({x \in DOMAIN upl : x[1] = u})

\* (mutant) the history query without its LIMIT
RecentHistoryUnlimited(upl, u) ==
    LET dates == DistinctUploadDates(upl, u)
    IN [i \in 1 .. Len(dates) |->
          [upload_date |-> dates[i], sketches |-> upl[<<u, dates[i]>>]]]

\* SELECT upload_date, COUNT(*) as sketches ... GROUP BY upload_date
\* ORDER BY upload_date DESC LIMIT 30
RecentHistory(upl, u) ==
    LET dates == DistinctUploadDates(upl, u)
        rows == [i \in 1 .. Len(dates) |->
                   [upload_date |-> dates[i], sketches |-> upl[<<u, dates[i]>>]]]
    IN SubSeq(rows, 1, IF Len(rows) < HistoryLimit THEN Len(rows) ELSE HistoryLimit)

\* getUserStats of the variants that recompute from the uploads table
GetUserStats(upl, u, today) ==
    LET streakData == CalculateStreaks(DistinctUploadDates(upl, u), today)
    IN [currentStreak |-> streakData.currentStreak,
        longestStreak |-> streakData.longestStreak,
        totalUploads |-> TotalUploads(upl, u),
        recentHistory |-> RecentHistory(upl, u),
        hasUploadedToday |-> streakData.hasUploadedToday]

(* ------------- the stats row of src/database.js ------------------------ *)
\* a JavaScript string holding a calendar day, and the Date object the
\* database driver builds from a DATE column
JsString(day) == [type |-> "string", v |-> day]
JsDate(day) == [type |-> "Date", v |-> day]

\* a === b: strings are equal by value, an object only to itself, and the
\* driver builds a new object for every row it returns
StrictEquals(a, b) == a.type = "string" /\ b.type = "string" /\ a.v = b.v

\* new Date(ms).toISOString().slice(0, 10)
IsoDate(ms) == JsString(ms \div MsPerDay)

\* SELECT * FROM stats WHERE userId = u, as the driver returns the row: column
\* names in lower case, the DATE column as a Date object
SelectStats(tbl, u) ==
    [userid |-> u,
     currentstreak |-> tbl[u].currentstreak,
     longeststreak |-> tbl[u].longeststreak,
     totaluploads |-> tbl[u].totaluploads,
     lastuploaddate |-> JsDate(tbl[u].lastuploaddate)]

\* (mutant) every upload counts for the streak, whatever its day
StatsAfterUploadCounting(row, today, yesterday) ==
    LET currentstreak == row.currentstreak + 1
    IN [currentstreak |-> currentstreak,
        longeststreak |-> Max(row.longeststreak, currentstreak),
        totaluploads |-> row.totaluploads + 1]

\* the else branch of saveUpload: the counters it computes from the row read
StatsAfterUpload(row, today, yesterday) ==
    LET totaluploads == row.totaluploads + 1
        sameDay == StrictEquals(row.lastuploaddate, today)
        currentstreak ==
            IF sameDay THEN row.currentstreak
            ELSE IF StrictEquals(row.lastuploaddate, yesterday)
                 THEN row.currentstreak + 1 ELSE 1
        longeststreak ==
            IF sameDay THEN row.longeststreak
            ELSE IF currentstreak > row.longeststreak
                 THEN currentstreak ELSE row.longeststreak
    IN [currentstreak |-> currentstreak, longeststreak |-> longeststreak,
        totaluploads |-> totaluploads]

\* the stats table after saveUpload of src/database.js has run at time ms:
\* INSERT of (u, 1, 1, 1, today) for a user without a row, else UPDATE
SaveUploadStats(tbl, u, ms) ==
    LET today == IsoDate(ms)
        yesterday == IsoDate(ms - MsPerDay)
    IN IF ~MapHas(tbl, u)
       THEN MapSet(tbl, u, [currentstreak |-> 1, longeststreak |-> 1,
                            totaluploads |-> 1, lastuploaddate |-> today.v])
       ELSE LET counters == StatsAfterUpload(SelectStats(tbl, u), today, yesterday)
            IN MapSet(tbl, u, [currentstreak |-> counters.currentstreak,
                               longeststreak |-> counters.longeststreak,
                               totaluploads |-> counters.totaluploads,
                               lastuploaddate |-> today.v])

\* a call of saveUpload that has not begun
IdleCall == [pc |-> "idle", user |-> 0, today |-> JsString(0), hasRow |-> FALSE,
             row |-> [userid |-> 0, currentstreak |-> 0, longeststreak |-> 0,
                      totaluploads |-> 0, lastuploaddate |-> JsDate(0)]]
NoCalls == [c \in 1 .. MaxCalls |-> IdleCall]

\* hasUploadedToday of src/database.js
HasUploadedTodayRow(tbl, u, ms) ==
    IF ~MapHas(tbl, u) THEN FALSE
    ELSE StrictEquals(SelectStats(tbl, u).lastuploaddate, IsoDate(ms))

\* getUserStats of src/database.js: the stats row as the driver returns it, or
\* an object of three fields when the user has no row
GetUserStatsRow(tbl, u) ==
    IF ~MapHas(tbl, u)
    THEN [currentStreak |-> 0, longestStreak |-> 0, totalUploads |-> 0]
    ELSE SelectStats(tbl, u)

\* handles whose callback has called bot.telegram.sendMessage
notified == {id \in TimeoutIds : timeouts[id].state \in {"awaiting", "settled"}}

\* uploads accepted so far: rows stored and requests still to store theirs
UploadsAccepted ==
    LET RECURSIVE Rows(_)
        Rows(keys) == IF keys = {} THEN 0
                      ELSE LET k == CHOOSE x \in keys : TRUE
                           IN uploads[k] + Rows(keys \ {k})
    IN Rows(UserIds \X Days) + Cardinality({u \in UserIds : uploadReq[u].pc = "saving"})
                              + Cardinality({u \in UserIds : photoReq[u].pc = "saving"})

(* ------------- the page: class SketchTimer of src/public/app.js -------- *)
\* this.backendTimer = null
NoBackendTimer == [set |-> FALSE, endTime |-> 0, duration |-> 0, isRunning |-> FALSE]
\* this.timer = null, or an interval that has been cleared
NoInterval == [active |-> FALSE, due |-> 0]
\* this.stats = null
NoClientStats == [loaded |-> FALSE, hasUploadedToday |-> FALSE]
\* no request of notifyTimerStart is in flight
NoNotify == [pc |-> "none", duration |-> 0]
\* the history variable before the upload button was ever enabled
NeverEnabled == 0 - 1

\* the fields the constructor and initializeElements set; pc is where
\* loadTimerState stands: "fetching" (the request is sent), "arrived" (the
\* answer, timerData, waits to be handled), "loaded" (loadTimerState is over).
\* uploadBtn is the state of the upload button: "markup" as the page's markup
\* has it, until a handler sets it, then "enabled", "disabled" or "uploading"
\* (disabled by uploadSketch while its request is in flight); notify is the
\* request of notifyTimerStart in flight; statsPc tells whether the request of
\* loadUserStats is in flight
SketchTimer(userId, pc) ==
    [pc |-> pc, userId |-> userId, timer |-> NoInterval,
     timeLeft |-> DefaultMinutes * SecondsPerMinute, isRunning |-> FALSE,
     timerStartedToday |-> FALSE, timerCompleted |-> FALSE,
     backendTimer |-> NoBackendTimer, timerData |-> NoResponse,
     stats |-> NoClientStats, statsPc |-> IF userId = 0 THEN "none" ELSE "fetching",
     uploadBtn |-> "markup", notify |-> NoNotify]

\* no page is open: there is no SketchTimer object
NoPage == [pc |-> "closed", userId |-> 0]

\* startBackendSyncedTimer at time t: this.timer = setInterval(..., 1000)
StartBackendSyncedTimer(c, t) ==
    [c EXCEPT !.timer = [active |-> TRUE, due |-> t + IntervalMs]]

\* pauseTimer
PauseTimer(c) ==
    IF c.isRunning THEN [c EXCEPT !.isRunning = FALSE, !.timer = NoInterval] ELSE c

\* updateUploadButtonState: this.stats?.hasUploadedToday is falsy while
\* this.stats is null
UpdateUploadButtonState(c) ==
    [c EXCEPT !.uploadBtn = IF c.stats.loaded /\ c.stats.hasUploadedToday THEN "disabled"
                            ELSE IF c.timerStartedToday \/ c.timerCompleted THEN "enabled"
                            ELSE "disabled"]

\* updateUI
UpdateUI(c) == IF ~c.stats.loaded THEN c ELSE UpdateUploadButtonState(c)

\* timerComplete
TimerComplete(c) == UpdateUploadButtonState([PauseTimer(c) EXCEPT !.timerCompleted = TRUE])

\* the history variable after a step that leaves the page as c on day `day`
EnabledOn(before, c, day) == IF c.uploadBtn = "enabled" THEN day ELSE before

\* (mutant) the page resumes whatever timer the server still holds
ResumeFromExpired(c, timerData, t) ==
    IF timerData.status = 200 /\ timerData.hasActiveTimer
    THEN StartBackendSyncedTimer(UpdateUploadButtonState(
            [c EXCEPT !.backendTimer = [set |-> TRUE, endTime |-> timerData.endTime,
                                        duration |-> timerData.duration,
                                        isRunning |-> TRUE],
                      !.timeLeft = timerData.remainingMs \div MsPerSecond,
                      !.isRunning = TRUE,
                      !.timerStartedToday = TRUE]), t)
    ELSE c

\* loadTimerState after `await response.json()`, at time t: the page resumes a
\* timer that the answer reports as active and not expired; an answer that is
\* not ok throws, and the catch block only logs
ResumeFromBackend(c, timerData, t) ==
    IF timerData.status = 200 /\ timerData.hasActiveTimer /\ ~timerData.isExpired
    THEN StartBackendSyncedTimer(UpdateUploadButtonState(
            [c EXCEPT !.backendTimer = [set |-> TRUE, endTime |-> timerData.endTime,
                                        duration |-> timerData.duration,
                                        isRunning |-> TRUE],
                      !.timeLeft = timerData.remainingMs \div MsPerSecond,
                      !.isRunning = TRUE,
                      !.timerStartedToday = TRUE]), t)
    ELSE c

\* the callback of the interval at time t
IntervalCallback(c, t) ==
    LET timeLeft == IF c.backendTimer.set /\ c.backendTimer.isRunning
                    THEN Max(0, c.backendTimer.endTime - t) \div MsPerSecond
                    ELSE c.timeLeft - 1
        shown == [c EXCEPT !.timeLeft = timeLeft]
    IN IF timeLeft <= 0 THEN TimerComplete(shown) ELSE shown

\* startTimer at time t, for a page that is not running: notifyTimerStart
\* returns at once without a user id and else sends POST /start-timer with
\* duration = Math.floor(this.timeLeft / 60)
StartTimerOf(c, t) ==
    StartBackendSyncedTimer(
        [UpdateUploadButtonState([c EXCEPT !.isRunning = TRUE, !.timerStartedToday = TRUE])
            EXCEPT !.notify = IF c.userId = 0 THEN @
                              ELSE [pc |-> "sent", duration |-> c.timeLeft \div SecondsPerMinute]],
        t)

\* resetTimer
ResetTimerOf(c) ==
    [c EXCEPT !.isRunning = FALSE, !.timer = NoInterval,
              !.timeLeft = DefaultMinutes * SecondsPerMinute]

\* setTimerPreset(minutes)
SetTimerPresetOf(c, minutes) ==
    IF ~c.isRunning THEN [c EXCEPT !.timeLeft = minutes * SecondsPerMinute] ELSE c

(* ---------------------------- Init ------------------------------------- *)
Init ==
    /\ now = StartOfClock
    /\ activeTimers = <<>>
    /\ timeouts = [id \in TimeoutIds |-> UnusedTimeout]
    /\ nextTimeoutId = 1
    /\ survivedCancel = {}
    /\ uploads = [k \in UserIds \X Days |-> 0]
    /\ sessions = {}
    /\ uploadReq = [u \in UserIds |-> IdleUpload]
    /\ photoReq = [u \in UserIds |-> IdleUpload]
    /\ doneReq = [u \in UserIds |-> IdleUpload]
    /\ statsTable = <<>>
    /\ client = NoPage
    /\ saveCalls = <<>>
    /\ enabledOn = NeverEnabled
    /\ resp = NoResponse

(* ------------------------ the clock ------------------------------------ *)
Tick(end) ==
    /\ now + ClockStep <= end
    /\ now' = now + ClockStep
    /\ resp' = NoResponse
    /\ UNCHANGED <<activeTimers, timeouts, nextTimeoutId, survivedCancel,
                   uploads, sessions, uploadReq, photoReq, doneReq, statsTable, client, saveCalls, enabledOn>>

\* a second passes while something is scheduled (with nothing scheduled the
\* passing of time changes nothing but the clock); the callbacks of the page's
\* interval and of the server's setTimeout that are due have run before, and
\* the page's requests have been answered or have failed
SecondPasses ==
    /\ now + IntervalMs <= EndOfCountdown
    /\ client.pc = "loaded" /\ client.notify.pc = "none"
    /\ client.timer.active \/ \E id \in TimeoutIds : timeouts[id].state = "pending"
    /\ ~(client.timer.active /\ now >= client.timer.due)
    /\ \A id \in TimeoutIds : ~(timeouts[id].state = "pending" /\ now >= timeouts[id].due)
    /\ now' = now + IntervalMs
    /\ resp' = NoResponse
    /\ UNCHANGED <<activeTimers, timeouts, nextTimeoutId, survivedCancel,
                   uploads, sessions, uploadReq, photoReq, doneReq, statsTable, client, saveCalls, enabledOn>>

(* --------------------- POST /start-timer ------------------------------- *)
StartTimer(userId, duration) ==
    IF userId = 0 \/ duration = 0
    THEN /\ resp' = Response("start", 0, 400)
         /\ UNCHANGED <<now, activeTimers, timeouts, nextTimeoutId,
                        survivedCancel, uploads, sessions, uploadReq, photoReq, doneReq, statsTable, client, saveCalls, enabledOn>>
    ELSE LET durationMs == DurationMs(duration)
             startTime == now
             endTime == startTime + durationMs
             timeoutId == nextTimeoutId
             cleared == ClearUserTimeout(timeouts, activeTimers, userId)
         IN /\ nextTimeoutId \in TimeoutIds
            /\ timeouts' = [cleared EXCEPT ![timeoutId] =
                              [user |-> userId, duration |-> duration,
                               due |-> now + TimeoutDelay(durationMs),
                               state |-> "pending"]]
            /\ nextTimeoutId' = nextTimeoutId + 1
            /\ activeTimers' = MapSet(activeTimers, userId,
                                  [duration |-> duration, startTime |-> startTime,
                                   endTime |-> endTime, timeoutId |-> timeoutId])
            /\ resp' = [Response("start", userId, 200) EXCEPT
                          !.duration = duration,
                          !.startTime = startTime, !.endTime = endTime]
            /\ UNCHANGED <<now, survivedCancel, uploads, sessions, uploadReq, photoReq, doneReq, statsTable, client, saveCalls, enabledOn>>

(* ------------- the setTimeout callback of /start-timer ----------------- *)
\* (mutant) the callback removes the entry before it sends the notification
TimerFireRemoving(id) ==
    /\ timeouts[id].state = "pending"
    /\ now >= timeouts[id].due
    /\ timeouts' = [timeouts EXCEPT ![id] = Finished(timeouts[id].user, "awaiting")]
    /\ activeTimers' = MapDelete(activeTimers, timeouts[id].user)
    /\ resp' = NoResponse
    /\ UNCHANGED <<now, nextTimeoutId, survivedCancel,
                   uploads, sessions, uploadReq, photoReq, doneReq, statsTable, client, saveCalls, enabledOn>>

\* the callback starts: it calls sendMessage and is suspended at the await
TimerFire(id) ==
    /\ timeouts[id].state = "pending"
    /\ now >= timeouts[id].due
    /\ timeouts' = [timeouts EXCEPT ![id] = Finished(timeouts[id].user, "awaiting")]
    /\ resp' = NoResponse
    /\ UNCHANGED <<now, activeTimers, nextTimeoutId, survivedCancel,
                   uploads, sessions, uploadReq, photoReq, doneReq, statsTable, client, saveCalls, enabledOn>>

\* (mutant) the catch path only logs the error and leaves the entry in place
TimerSettleKeepingOnError(id, ok) ==
    /\ timeouts[id].state = "awaiting"
    /\ timeouts' = [timeouts EXCEPT ![id] = Finished(0, "settled")]
    /\ activeTimers' = IF ok THEN MapDelete(activeTimers, timeouts[id].user)
                       ELSE activeTimers
    /\ resp' = Response(IF ok THEN "notified" ELSE "notifyFailed", timeouts[id].user, 0)
    /\ UNCHANGED <<now, nextTimeoutId, survivedCancel,
                   uploads, sessions, uploadReq, photoReq, doneReq, statsTable, client, saveCalls, enabledOn>>

\* sendMessage settles: both the try path and the catch path delete the entry
TimerSettle(id, ok) ==
    /\ timeouts[id].state = "awaiting"
    /\ timeouts' = [timeouts EXCEPT ![id] = Finished(0, "settled")]
    /\ activeTimers' = MapDelete(activeTimers, timeouts[id].user)
    /\ resp' = Response(IF ok THEN "notified" ELSE "notifyFailed", timeouts[id].user, 0)
    /\ UNCHANGED <<now, nextTimeoutId, survivedCancel,
                   uploads, sessions, uploadReq, photoReq, doneReq, statsTable, client, saveCalls, enabledOn>>

(* ----------------------- GET /timer/:userId ---------------------------- *)
\* (mutant) a query that finds the timer expired removes its entry
GetTimerPurging(userId) ==
    LET has == userId # 0 /\ MapHas(activeTimers, userId)
        remainingMs == IF has THEN RemainingMs(activeTimers[userId].endTime, now) ELSE 0
    IN /\ resp' = IF userId = 0 THEN Response("query", 0, 400)
                  ELSE IF has
                  THEN [Response("query", userId, 200) EXCEPT
                          !.hasActiveTimer = TRUE,
                          !.duration = activeTimers[userId].duration,
                          !.startTime = activeTimers[userId].startTime,
                          !.endTime = activeTimers[userId].endTime,
                          !.remainingMs = remainingMs,
                          !.isExpired = (remainingMs = 0)]
                  ELSE Response("query", userId, 200)
       /\ activeTimers' = IF has /\ remainingMs = 0
                          THEN MapDelete(activeTimers, userId) ELSE activeTimers
       /\ UNCHANGED <<now, timeouts, nextTimeoutId, survivedCancel,
                      uploads, sessions, uploadReq, photoReq, doneReq, statsTable, client, saveCalls, enabledOn>>

GetTimer(userId) ==
    /\ resp' = IF userId = 0 THEN Response("query", 0, 400)
               ELSE IF MapHas(activeTimers, userId)
               THEN LET timerData == activeTimers[userId]
                        remainingMs == RemainingMs(timerData.endTime, now)
                    IN [Response("query", userId, 200) EXCEPT
                          !.hasActiveTimer = TRUE,
                          !.duration = timerData.duration,
                          !.startTime = timerData.startTime,
                          !.endTime = timerData.endTime,
                          !.remainingMs = remainingMs,
                          !.isExpired = (remainingMs = 0)]
               ELSE Response("query", userId, 200)
    /\ UNCHANGED <<now, activeTimers, timeouts, nextTimeoutId,
                   survivedCancel, uploads, sessions, uploadReq, photoReq, doneReq, statsTable, client, saveCalls, enabledOn>>

(* ----------------------- POST /cancel-timer ---------------------------- *)
\* (mutant) cancelling a timer that does not exist is answered 404
CancelTimerStrict(userId) ==
    IF userId = 0 \/ ~MapHas(activeTimers, userId)
    THEN /\ resp' = IF userId = 0 THEN Response("cancel", 0, 400)
                    ELSE Response("cancel", userId, 404)
         /\ UNCHANGED <<now, activeTimers, timeouts, nextTimeoutId,
                        survivedCancel, uploads, sessions, uploadReq, photoReq, doneReq, statsTable, client, saveCalls, enabledOn>>
    ELSE /\ timeouts' = ClearUserTimeout(timeouts, activeTimers, userId)
         /\ activeTimers' = MapDelete(activeTimers, userId)
         /\ survivedCancel' = survivedCancel \cup
               {id \in TimeoutIds : /\ timeouts'[id].user = userId
                                    /\ timeouts'[id].state = "pending"}
         /\ resp' = [Response("cancel", userId, 200) EXCEPT
                       !.hasActiveTimer = MapHas(activeTimers, userId)]
         /\ UNCHANGED <<now, nextTimeoutId, uploads, sessions, uploadReq, photoReq, doneReq, statsTable, client, saveCalls, enabledOn>>

CancelTimer(userId) ==
    IF userId = 0
    THEN /\ resp' = Response("cancel", 0, 400)
         /\ UNCHANGED <<now, activeTimers, timeouts, nextTimeoutId,
                        survivedCancel, uploads, sessions, uploadReq, photoReq, doneReq, statsTable, client, saveCalls, enabledOn>>
    ELSE /\ timeouts' = ClearUserTimeout(timeouts, activeTimers, userId)
         /\ activeTimers' = MapDelete(activeTimers, userId)
         /\ survivedCancel' = survivedCancel \cup
               {id \in TimeoutIds : /\ timeouts'[id].user = userId
                                    /\ timeouts'[id].state = "pending"}
         /\ resp' = [Response("cancel", userId, 200) EXCEPT
                       !.hasActiveTimer = MapHas(activeTimers, userId)]
         /\ UNCHANGED <<now, nextTimeoutId, uploads, sessions, uploadReq, photoReq, doneReq, statsTable, client, saveCalls, enabledOn>>

(* -------------------------- POST /upload ------------------------------- *)
\* the handler runs up to `await saveUpload(...)`; saveUpload has read today
UploadBegin(userId, hasFile) ==
    IF ~hasFile \/ userId = 0
    THEN /\ resp' = Response("upload", 0, 400)
         /\ UNCHANGED <<now, activeTimers, timeouts, nextTimeoutId,
                        survivedCancel, uploads, sessions, uploadReq, photoReq, doneReq, statsTable, client, saveCalls, enabledOn>>
    ELSE /\ uploadReq[userId].pc = "idle"
         /\ UploadsAccepted < MaxUploads
         /\ uploadReq' = [uploadReq EXCEPT ![userId] = [pc |-> "saving", day |-> Today]]
         /\ resp' = NoResponse
         /\ UNCHANGED <<now, activeTimers, timeouts, nextTimeoutId,
                        survivedCancel, uploads, sessions>>
         /\ UNCHANGED <<photoReq, doneReq, statsTable, client, saveCalls, enabledOn>>

\* the INSERT into uploads is done; markSessionComplete is called and reads today
UploadSaved(u) ==
    /\ uploadReq[u].pc = "saving"
    /\ uploads' = [uploads EXCEPT ![<<u, uploadReq[u].day>>] = @ + 1]
    /\ uploadReq' = [uploadReq EXCEPT ![u] = [pc |-> "marking", day |-> Today]]
    /\ resp' = NoResponse
    /\ UNCHANGED <<now, activeTimers, timeouts, nextTimeoutId,
                   survivedCancel, sessions>>
    /\ UNCHANGED <<photoReq, doneReq, statsTable, client, saveCalls, enabledOn>>

\* the upsert into sessions is done; the active timer is cancelled; getUserStats is called
UploadMarked(u) ==
    /\ uploadReq[u].pc = "marking"
    /\ sessions' = MarkSessionComplete(sessions, u, uploadReq[u].day)
    /\ timeouts' = ClearUserTimeout(timeouts, activeTimers, u)
    /\ activeTimers' = MapDelete(activeTimers, u)
    /\ uploadReq' = [uploadReq EXCEPT ![u] = [pc |-> "stats", day |-> 0]]
    /\ resp' = NoResponse
    /\ UNCHANGED <<now, nextTimeoutId, survivedCancel, uploads>>
    /\ UNCHANGED <<photoReq, doneReq, statsTable, client, saveCalls, enabledOn>>

\* getUserStats is done; the handler answers
UploadRespond(u) ==
    /\ uploadReq[u].pc = "stats"
    /\ uploadReq' = [uploadReq EXCEPT ![u] = IdleUpload]
    /\ resp' = Response("upload", u, 200)
    /\ UNCHANGED <<now, activeTimers, timeouts, nextTimeoutId,
                   survivedCancel, uploads, sessions>>
    /\ UNCHANGED <<photoReq, doneReq, statsTable, client, saveCalls, enabledOn>>

\* the promise the handler awaits (saveUpload, markSessionComplete or
\* getUserStats) rejects: the catch block removes the file and answers 500
UploadFailed(u) ==
    /\ uploadReq[u].pc \in {"saving", "marking", "stats"}
    /\ uploadReq' = [uploadReq EXCEPT ![u] = IdleUpload]
    /\ resp' = Response("upload", u, 500)
    /\ UNCHANGED <<now, activeTimers, timeouts, nextTimeoutId,
                   survivedCancel, uploads, sessions>>
    /\ UNCHANGED <<photoReq, doneReq, statsTable, client, saveCalls, enabledOn>>

(* ----------------------- bot.on('photo') ------------------------------- *)
\* the handler runs up to `await saveUpload(...)`; saveUpload has read today
PhotoBegin(u) ==
    /\ photoReq[u].pc = "idle"
    /\ UploadsAccepted < MaxUploads
    /\ photoReq' = [photoReq EXCEPT ![u] = [pc |-> "saving", day |-> Today]]
    /\ resp' = NoResponse
    /\ UNCHANGED <<now, activeTimers, timeouts, nextTimeoutId, survivedCancel,
                   uploads, sessions, uploadReq, doneReq, statsTable, client, saveCalls, enabledOn>>

\* the INSERT into uploads is done; getUserStats is called
PhotoSaved(u) ==
    /\ photoReq[u].pc = "saving"
    /\ uploads' = [uploads EXCEPT ![<<u, photoReq[u].day>>] = @ + 1]
    /\ photoReq' = [photoReq EXCEPT ![u] = [pc |-> "stats", day |-> 0]]
    /\ resp' = NoResponse
    /\ UNCHANGED <<now, activeTimers, timeouts, nextTimeoutId, survivedCancel,
                   sessions, uploadReq, doneReq, statsTable, client, saveCalls, enabledOn>>

\* getUserStats is done; the handler replies "Great sketch! Added to your collection!"
PhotoReply(u) ==
    /\ photoReq[u].pc = "stats"
    /\ photoReq' = [photoReq EXCEPT ![u] = IdleUpload]
    /\ resp' = Response("photo", u, 200)
    /\ UNCHANGED <<now, activeTimers, timeouts, nextTimeoutId, survivedCancel,
                   uploads, sessions, uploadReq, doneReq, statsTable, client, saveCalls, enabledOn>>

(* --------------------------- POST /done -------------------------------- *)
\* the handler runs up to `await hasUploadedToday(userId)`, which has read today
DoneBegin(userId) ==
    IF userId = 0
    THEN /\ resp' = Response("done", 0, 400)
         /\ UNCHANGED <<now, activeTimers, timeouts, nextTimeoutId, survivedCancel,
                        uploads, sessions, uploadReq, photoReq, doneReq, statsTable, client, saveCalls, enabledOn>>
    ELSE /\ doneReq[userId].pc = "idle"
         /\ doneReq' = [doneReq EXCEPT ![userId] = [pc |-> "checking", day |-> Today]]
         /\ resp' = NoResponse
         /\ UNCHANGED <<now, activeTimers, timeouts, nextTimeoutId, survivedCancel,
                        uploads, sessions, uploadReq, photoReq, statsTable, client, saveCalls, enabledOn>>

\* (mutant) the handler does not look at the answer of hasUploadedToday
DoneCheckedUngated(u) ==
    /\ doneReq[u].pc = "checking"
    /\ doneReq' = [doneReq EXCEPT ![u] = [pc |-> "marking", day |-> Today]]
    /\ resp' = NoResponse
    /\ UNCHANGED <<now, activeTimers, timeouts, nextTimeoutId, survivedCancel,
                   uploads, sessions, uploadReq, photoReq, statsTable, client, saveCalls, enabledOn>>

\* the count query has answered: without an upload of that day the handler
\* answers 400, otherwise it calls markSessionComplete, which reads today
DoneChecked(u) ==
    /\ doneReq[u].pc = "checking"
    /\ IF HasUploadedToday(uploads, u, doneReq[u].day)
       THEN /\ doneReq' = [doneReq EXCEPT ![u] = [pc |-> "marking", day |-> Today]]
            /\ resp' = NoResponse
       ELSE /\ doneReq' = [doneReq EXCEPT ![u] = IdleUpload]
            /\ resp' = Response("done", u, 400)
    /\ UNCHANGED <<now, activeTimers, timeouts, nextTimeoutId, survivedCancel,
                   uploads, sessions, uploadReq, photoReq, statsTable, client, saveCalls, enabledOn>>

\* (mutant) marking the session also stores an upload of that day
DoneMarkedSavingUpload(u) ==
    /\ doneReq[u].pc = "marking"
    /\ sessions' = MarkSessionComplete(sessions, u, doneReq[u].day)
    /\ uploads' = [uploads EXCEPT ![<<u, doneReq[u].day>>] = @ + 1]
    /\ doneReq' = [doneReq EXCEPT ![u] = [pc |-> "stats", day |-> 0]]
    /\ resp' = NoResponse
    /\ UNCHANGED <<now, activeTimers, timeouts, nextTimeoutId, survivedCancel,
                   uploadReq, photoReq, statsTable, client, saveCalls, enabledOn>>

\* the upsert into sessions is done; getUserStats is called
DoneMarked(u) ==
    /\ doneReq[u].pc = "marking"
    /\ sessions' = MarkSessionComplete(sessions, u, doneReq[u].day)
    /\ doneReq' = [doneReq EXCEPT ![u] = [pc |-> "stats", day |-> 0]]
    /\ resp' = NoResponse
    /\ UNCHANGED <<now, activeTimers, timeouts, nextTimeoutId, survivedCancel,
                   uploads, uploadReq, photoReq, statsTable, client, saveCalls, enabledOn>>

\* getUserStats is done; the handler answers "Session marked as complete!"
DoneRespond(u) ==
    /\ doneReq[u].pc = "stats"
    /\ doneReq' = [doneReq EXCEPT ![u] = IdleUpload]
    /\ resp' = Response("done", u, 200)
    /\ UNCHANGED <<now, activeTimers, timeouts, nextTimeoutId, survivedCancel,
                   uploads, sessions, uploadReq, photoReq, statsTable, client, saveCalls, enabledOn>>

(* ------------- the page is loaded again -------------------------------- *)
\* new SketchTimer(): the constructor sets the fields and calls loadTimerState,
\* which returns at once without a user id and else sends GET /timer/:userId
NewSketchTimer(userId) ==
    /\ client' = SketchTimer(userId, IF userId = 0 THEN "loaded" ELSE "fetching")
    /\ resp' = NoResponse
    /\ UNCHANGED <<now, activeTimers, timeouts, nextTimeoutId, survivedCancel,
                   uploads, sessions, uploadReq, photoReq, doneReq, statsTable, saveCalls, enabledOn>>

\* the answer the server has just sent to the page's query is on its way
FetchTimerAnswered ==
    /\ client.pc = "fetching"
    /\ resp.op = "query" /\ resp.user = client.userId
    /\ client' = [client EXCEPT !.pc = "arrived", !.timerData = resp]
    /\ resp' = NoResponse
    /\ UNCHANGED <<now, activeTimers, timeouts, nextTimeoutId, survivedCancel,
                   uploads, sessions, uploadReq, photoReq, doneReq, statsTable, saveCalls, enabledOn>>

\* loadTimerState resumes with the answer
LoadTimerState ==
    /\ client.pc = "arrived"
    /\ client' = [ResumeFromBackend(client, client.timerData, now) EXCEPT !.pc = "loaded"]
    /\ enabledOn' = EnabledOn(enabledOn, client', Today)
    /\ resp' = NoResponse
    /\ UNCHANGED <<now, activeTimers, timeouts, nextTimeoutId, survivedCancel,
                   uploads, sessions, uploadReq, photoReq, doneReq, statsTable, saveCalls>>

\* the interval of startBackendSyncedTimer fires
IntervalTick ==
    /\ client.pc # "closed"
    /\ client.timer.active
    /\ now >= client.timer.due
    /\ client' = LET c == IntervalCallback(client, now)
                 IN IF c.timer.active THEN [c EXCEPT !.timer.due = now + IntervalMs] ELSE c
    /\ enabledOn' = EnabledOn(enabledOn, client', Today)
    /\ resp' = NoResponse
    /\ UNCHANGED <<now, activeTimers, timeouts, nextTimeoutId, survivedCancel,
                   uploads, sessions, uploadReq, photoReq, doneReq, statsTable, saveCalls>>

(* ------------- the page's buttons and requests ------------------------- *)
\* the answer to the page's POST /start-timer has been sent and is on its way
StartAnswerInFlight ==
    client.pc # "closed" /\ client.notify.pc = "sent" /\ resp.op = "start"
\* the answer to the page's POST /upload has been sent and is on its way
UploadAnswerInFlight ==
    client.pc # "closed" /\ client.uploadBtn = "uploading" /\ resp.op = "upload"
\* no answer to the page is on its way
Quiet == ~StartAnswerInFlight /\ ~UploadAnswerInFlight

\* a step of the page alone that leaves it as c
PageStep(c) ==
    /\ client' = c
    /\ enabledOn' = EnabledOn(enabledOn, c, Today)
    /\ resp' = NoResponse
    /\ UNCHANGED <<now, activeTimers, timeouts, nextTimeoutId, survivedCancel,
                   uploads, sessions, uploadReq, photoReq, doneReq, statsTable, saveCalls>>

\* loadUserStats after `await response.json()`: this.stats is what getUserStats
\* returns, and updateUI sets the upload button
LoadUserStats ==
    /\ client.pc # "closed" /\ client.statsPc = "fetching"
    /\ PageStep(UpdateUI([client EXCEPT
                    !.statsPc = "done",
                    !.stats = [loaded |-> TRUE,
                               hasUploadedToday |->
                                   GetUserStats(uploads, client.userId, Today).hasUploadedToday]]))

\* a click on the start button, which is disabled while the page is running
StartTimerClick ==
    /\ client.pc # "closed" /\ ~client.isRunning
    /\ PageStep(StartTimerOf(client, now))

\* the page's POST /start-timer is answered: notifyTimerStart keeps the
\* endTime of an answer that is ok; an answer that does not arrive throws and
\* the catch block only logs
NotifyTimerStartAnswered(arrives) ==
    /\ StartAnswerInFlight
    /\ PageStep([client EXCEPT
                    !.notify = NoNotify,
                    !.backendTimer = IF arrives /\ resp.status = 200
                                     THEN [set |-> TRUE, endTime |-> resp.endTime,
                                           duration |-> client.notify.duration,
                                           isRunning |-> TRUE]
                                     ELSE @])

\* the page's POST /start-timer does not reach the server
NotifyTimerStartLost ==
    /\ client.pc # "closed"
    /\ client.notify.pc = "sent" /\ ~StartAnswerInFlight
    /\ PageStep([client EXCEPT !.notify = NoNotify])

\* a click on the pause button
PauseTimerClick ==
    /\ client.pc # "closed"
    /\ PageStep(PauseTimer(client))

\* a click on the reset button
ResetTimerClick ==
    /\ client.pc # "closed"
    /\ PageStep(ResetTimerOf(client))

\* a click on a preset button
SetTimerPresetClick(minutes) ==
    /\ client.pc # "closed"
    /\ PageStep(SetTimerPresetOf(client, minutes))

\* a file is chosen (triggerFileSelection opens the dialog only while the
\* button is not disabled) and uploadSketch sends POST /upload
UploadSketchSend ==
    /\ client.pc # "closed" /\ client.userId # 0
    /\ client.uploadBtn = "enabled"
    /\ PageStep([client EXCEPT !.uploadBtn = "uploading"])

\* the page's POST /upload is answered: with success the page takes the stats
\* of the answer and calls updateUI, otherwise updateUploadButtonState
UploadSketchAnswered(arrives) ==
    /\ UploadAnswerInFlight
    /\ PageStep(IF arrives /\ resp.status = 200
                THEN UpdateUI([client EXCEPT
                        !.stats = [loaded |-> TRUE,
                                   hasUploadedToday |->
                                       GetUserStats(uploads, client.userId, Today).hasUploadedToday]])
                ELSE UpdateUploadButtonState(client))

(* ------------- the database functions, called on a stored history ------ *)
\* an uploads table: one row on each day of `days` for the users of SessionUsers
UploadTable(days) ==
    [k \in UserIds \X StreakDays |-> IF k[1] \in SessionUsers /\ k[2] \in days THEN 1 ELSE 0]

\* the clock stands at the start of some day; the uploads table holds a history
\* of days up to that day; the other tables are empty, no request is in flight
InitDb ==
    /\ \E today \in StreakDays :
          /\ now = DateOf(today)
          /\ uploads \in {UploadTable(days) : days \in SUBSET (0 .. today)}
    /\ activeTimers = <<>>
    /\ timeouts = [id \in TimeoutIds |-> UnusedTimeout]
    /\ nextTimeoutId = 1
    /\ survivedCancel = {}
    /\ sessions = {}
    /\ uploadReq = [u \in UserIds |-> IdleUpload]
    /\ photoReq = [u \in UserIds |-> IdleUpload]
    /\ doneReq = [u \in UserIds |-> IdleUpload]
    /\ statsTable = <<>>
    /\ client = NoPage
    /\ saveCalls = <<>>
    /\ enabledOn = NeverEnabled
    /\ resp = NoResponse

\* the clock stands at the start of some day; nothing is stored
InitStreaks ==
    /\ now \in {DateOf(today) : today \in StreakDays}
    /\ activeTimers = <<>>
    /\ timeouts = [id \in TimeoutIds |-> UnusedTimeout]
    /\ nextTimeoutId = 1
    /\ survivedCancel = {}
    /\ uploads = [k \in UserIds \X Days |-> 0]
    /\ sessions = {}
    /\ uploadReq = [u \in UserIds |-> IdleUpload]
    /\ photoReq = [u \in UserIds |-> IdleUpload]
    /\ doneReq = [u \in UserIds |-> IdleUpload]
    /\ statsTable = <<>>
    /\ client = NoPage
    /\ saveCalls = <<>>
    /\ enabledOn = NeverEnabled
    /\ resp = NoResponse

\* calculateStreaks(uploadDates)
CallCalculateStreaks(uploadDates) ==
    /\ resp' = [Response("streaks", 0, 0) EXCEPT
                  !.stats = CalculateStreaks(uploadDates, Today),
                  !.uploadDates = uploadDates]
    /\ UNCHANGED <<now, activeTimers, timeouts, nextTimeoutId, survivedCancel,
                   uploads, sessions, uploadReq, photoReq, doneReq, statsTable, client, saveCalls, enabledOn>>

\* GET /stats/:userId over the getUserStats that recomputes from the uploads
GetStats(userId) ==
    /\ resp' = IF userId = 0 THEN Response("stats", 0, 400)
               ELSE [Response("stats", userId, 200) EXCEPT
                       !.stats = GetUserStats(uploads, userId, Today)]
    /\ UNCHANGED <<now, activeTimers, timeouts, nextTimeoutId, survivedCancel,
                   uploads, sessions, uploadReq, photoReq, doneReq, statsTable, client, saveCalls, enabledOn>>

\* GET /stats/:userId over the getUserStats of src/database.js
GetStatsRow(userId) ==
    /\ resp' = IF userId = 0 THEN Response("statsRow", 0, 400)
               ELSE [Response("statsRow", userId, 200) EXCEPT
                       !.stats = GetUserStatsRow(statsTable, userId)]
    /\ UNCHANGED <<now, activeTimers, timeouts, nextTimeoutId, survivedCancel,
                   uploads, sessions, uploadReq, photoReq, doneReq, statsTable, client, saveCalls, enabledOn>>

\* saveUpload(userId, ...) run to its end, once on the uploads table of the
\* recomputing variants (INSERT with upload_date = today) and once on the
\* stats table of src/database.js, so that both hold the same history
SaveUpload(u) ==
    /\ uploads[<<u, Today>>] < MaxPerDay
    /\ uploads' = [uploads EXCEPT ![<<u, Today>>] = @ + 1]
    /\ statsTable' = SaveUploadStats(statsTable, u, now)
    /\ resp' = Response("save", u, 0)
    /\ UNCHANGED <<now, activeTimers, timeouts, nextTimeoutId, survivedCancel,
                   sessions, uploadReq, photoReq, doneReq, client, saveCalls, enabledOn>>

\* saveUpload of src/database.js, one await at a time.  The call begins: the
\* INSERT into uploads is carried out
SaveUploadInsert(c, u) ==
    /\ saveCalls[c].pc = "idle"
    /\ uploads' = [uploads EXCEPT ![<<u, Today>>] = @ + 1]
    /\ saveCalls' = [saveCalls EXCEPT ![c] = [IdleCall EXCEPT !.pc = "inserted", !.user = u]]
    /\ resp' = NoResponse
    /\ UNCHANGED <<now, activeTimers, timeouts, nextTimeoutId, survivedCancel,
                   sessions, uploadReq, photoReq, doneReq, statsTable, client, enabledOn>>

\* the call resumes, reads today and the SELECT of the stats row is carried out
SaveUploadSelect(c) ==
    LET u == saveCalls[c].user IN
    /\ saveCalls[c].pc = "inserted"
    /\ saveCalls' = [saveCalls EXCEPT ![c] =
                        [pc |-> "selected", user |-> u, today |-> IsoDate(now),
                         hasRow |-> MapHas(statsTable, u),
                         row |-> IF MapHas(statsTable, u) THEN SelectStats(statsTable, u)
                                 ELSE IdleCall.row]]
    /\ resp' = NoResponse
    /\ UNCHANGED <<now, activeTimers, timeouts, nextTimeoutId, survivedCancel,
                   uploads, sessions, uploadReq, photoReq, doneReq, statsTable, client, enabledOn>>

\* the call resumes with the rows read and its INSERT or UPDATE of the stats
\* row is carried out: an INSERT that finds a row of the user breaks the
\* primary key, the query rejects and saveUpload throws; an UPDATE writes the
\* counters computed from the row read
SaveUploadWrite(c) ==
    LET u == saveCalls[c].user
        call == saveCalls[c]
        counters == StatsAfterUpload(call.row, call.today, IsoDate(now - MsPerDay))
    IN /\ call.pc = "selected"
       /\ IF ~call.hasRow
          THEN IF MapHas(statsTable, u)
               THEN /\ statsTable' = statsTable
                    /\ saveCalls' = [saveCalls EXCEPT ![c].pc = "failed"]
                    /\ resp' = Response("saveUpload", u, 500)
               ELSE /\ statsTable' = MapSet(statsTable, u,
                                         [currentstreak |-> 1, longeststreak |-> 1,
                                          totaluploads |-> 1, lastuploaddate |-> call.today.v])
                    /\ saveCalls' = [saveCalls EXCEPT ![c].pc = "done"]
                    /\ resp' = Response("saveUpload", u, 200)
          ELSE /\ statsTable' =
                     IF MapHas(statsTable, u)
                     THEN MapSet(statsTable, u,
                                 [currentstreak |-> counters.currentstreak,
                                  longeststreak |-> counters.longeststreak,
                                  totaluploads |-> counters.totaluploads,
                                  lastuploaddate |-> call.today.v])
                     ELSE statsTable
               /\ saveCalls' = [saveCalls EXCEPT ![c].pc = "done"]
               /\ resp' = Response("saveUpload", u, 200)
       /\ UNCHANGED <<now, activeTimers, timeouts, nextTimeoutId, survivedCancel,
                      uploads, sessions, uploadReq, photoReq, doneReq, client, enabledOn>>

\* midnight (UTC) passes
NextDay ==
    /\ Today < MaxStreakDay
    /\ now' = now + MsPerDay
    /\ resp' = NoResponse
    /\ UNCHANGED <<activeTimers, timeouts, nextTimeoutId, survivedCancel,
                   uploads, sessions, uploadReq, photoReq, doneReq, statsTable, client, saveCalls, enabledOn>>

\* day 0 begins; nothing is stored
InitStats ==
    /\ now = DateOf(0)
    /\ activeTimers = <<>>
    /\ timeouts = [id \in TimeoutIds |-> UnusedTimeout]
    /\ nextTimeoutId = 1
    /\ survivedCancel = {}
    /\ uploads = UploadTable({})
    /\ sessions = {}
    /\ uploadReq = [u \in UserIds |-> IdleUpload]
    /\ photoReq = [u \in UserIds |-> IdleUpload]
    /\ doneReq = [u \in UserIds |-> IdleUpload]
    /\ statsTable = <<>>
    /\ client = NoPage
    /\ saveCalls = NoCalls
    /\ enabledOn = NeverEnabled
    /\ resp = NoResponse

\* markSessionComplete(userId) of the variants with a sessions table
CallMarkSessionComplete(u) ==
    /\ sessions' = MarkSessionComplete(sessions, u, Today)
    /\ resp' = [Response("mark", u, 0) EXCEPT !.conflict = (<<u, Today>> \in sessions)]
    /\ UNCHANGED <<now, activeTimers, timeouts, nextTimeoutId, survivedCancel,
                   uploads, uploadReq, photoReq, doneReq, statsTable, client, saveCalls, enabledOn>>

\* markSessionComplete(userId) of src/database.js
CallMarkSessionCompleteStub(u) ==
    /\ sessions' = MarkSessionCompleteStub(sessions, u, Today)
    /\ resp' = Response("markStub", u, 0)
    /\ UNCHANGED <<now, activeTimers, timeouts, nextTimeoutId, survivedCancel,
                   uploads, uploadReq, photoReq, doneReq, statsTable, client, saveCalls, enabledOn>>

(* ---------------------------- Next ------------------------------------- *)
Next ==
    \/ Tick(EndOfClock)
    \/ /\ nextTimeoutId <= MaxTimers
       /\ \E userId \in UserIdInputs, duration \in DurationInputs : StartTimer(userId, duration)
    \/ \E id \in TimeoutIds : TimerFire(id)
    \/ \E id \in TimeoutIds, ok \in BOOLEAN : TimerSettle(id, ok)
    \/ \E userId \in UserIdInputs : GetTimer(userId)
    \/ \E userId \in UserIdInputs : CancelTimer(userId)
    \/ \E userId \in UserIdInputs, hasFile \in BOOLEAN : UploadBegin(userId, hasFile)
    \/ \E u \in UserIds : UploadSaved(u)
    \/ \E u \in UserIds : UploadMarked(u)
    \/ \E u \in UserIds : UploadRespond(u)

Spec == Init /\ [][Next]_vars

\* the timer handlers and callbacks alone, answering valid requests
NextRace ==
    \/ Tick(EndOfRaceClock)
    \/ \E userId \in UserIds, duration \in ValidDurations : StartTimer(userId, duration)
    \/ \E id \in TimeoutIds : TimerFire(id)
    \/ \E id \in TimeoutIds, ok \in BOOLEAN : TimerSettle(id, ok)
    \/ \E userId \in UserIds : GetTimer(userId)
    \/ \E userId \in UserIds : CancelTimer(userId)

SpecRace == Init /\ [][NextRace]_vars

\* the timers of two users side by side, with one more handle than Spec, and
\* the uploads of one of them
NextUsers ==
    \/ Tick(EndOfClock)
    \/ /\ nextTimeoutId <= MaxTimers + 1
       /\ \E userId \in UserIds, duration \in ValidDurations : StartTimer(userId, duration)
    \/ \E id \in TimeoutIds : TimerFire(id)
    \/ \E id \in TimeoutIds, ok \in BOOLEAN : TimerSettle(id, ok)
    \/ \E userId \in UserIds : GetTimer(userId)
    \/ \E userId \in UserIds : CancelTimer(userId)
    \/ \E userId \in SessionUsers : UploadBegin(userId, TRUE)
    \/ \E u \in SessionUsers : UploadSaved(u)
    \/ \E u \in SessionUsers : UploadMarked(u)
    \/ \E u \in SessionUsers : UploadRespond(u)

SpecUsers == Init /\ [][NextUsers]_vars

\* the upload handler with database calls that may fail, beside the timers
NextFaults ==
    \/ Tick(EndOfClock)
    \/ /\ nextTimeoutId <= MaxTimers
       /\ \E userId \in SessionUsers, duration \in ValidDurations : StartTimer(userId, duration)
    \/ \E id \in TimeoutIds : TimerFire(id)
    \/ \E id \in TimeoutIds, ok \in BOOLEAN : TimerSettle(id, ok)
    \/ \E userId \in {0} \cup SessionUsers, hasFile \in BOOLEAN : UploadBegin(userId, hasFile)
    \/ \E u \in SessionUsers : UploadSaved(u)
    \/ \E u \in SessionUsers : UploadMarked(u)
    \/ \E u \in SessionUsers : UploadRespond(u)
    \/ \E u \in SessionUsers : UploadFailed(u)

SpecFaults == Init /\ [][NextFaults]_vars

\* the timers under fair scheduling. The model's clock ends, so start is
\* accepted only while the trigger it schedules falls due before that end.
NextLive ==
    \/ Tick(EndOfRaceClock)
    \/ \E userId \in UserIds, duration \in ValidDurations :
          /\ now + TimeoutDelay(DurationMs(duration)) <= EndOfRaceClock
          /\ StartTimer(userId, duration)
    \/ \E id \in TimeoutIds : TimerFire(id)
    \/ \E id \in TimeoutIds, ok \in BOOLEAN : TimerSettle(id, ok)
    \/ \E userId \in UserIds : GetTimer(userId)
    \/ \E userId \in UserIds : CancelTimer(userId)

\* time passes; the event loop runs the callback of a trigger that is due; the
\* promise of sendMessage is fulfilled or rejected
Fairness ==
    /\ WF_vars(Tick(EndOfRaceClock))
    /\ \A id \in TimeoutIds : WF_vars(TimerFire(id))
    /\ \A id \in TimeoutIds : WF_vars(\E ok \in BOOLEAN : TimerSettle(id, ok))

SpecLive == Init /\ [][NextLive]_vars /\ Fairness

\* the page of one user, loaded again and again while timers run on the server
NextClient ==
    \/ Tick(EndOfClock)
    \/ /\ nextTimeoutId <= MaxTimers
       /\ \E userId \in SessionUsers, duration \in ValidDurations : StartTimer(userId, duration)
    \/ \E id \in TimeoutIds : TimerFire(id)
    \/ \E id \in TimeoutIds, ok \in BOOLEAN : TimerSettle(id, ok)
    \/ \E userId \in UserIds : GetTimer(userId)
    \/ \E userId \in SessionUsers : CancelTimer(userId)
    \/ \E userId \in {0} \cup SessionUsers : NewSketchTimer(userId)
    \/ FetchTimerAnswered
    \/ LoadTimerState
    \/ IntervalTick

SpecClient == Init /\ [][NextClient]_vars

\* the page of one user with its buttons and its requests: the server starts
\* a timer and stores an upload when the page asks for it, and an answer on
\* its way to the page arrives (or is lost) before anything else happens
NextGate ==
    \/ Quiet /\ Tick(EndOfClock)
    \/ /\ Quiet /\ client.pc # "closed" /\ client.notify.pc = "sent"
       /\ nextTimeoutId <= MaxTimers
       /\ StartTimer(client.userId, client.notify.duration)
    \/ Quiet /\ \E id \in TimeoutIds : TimerFire(id)
    \/ Quiet /\ \E id \in TimeoutIds, ok \in BOOLEAN : TimerSettle(id, ok)
    \/ Quiet /\ client.pc = "fetching" /\ GetTimer(client.userId)
    \/ \E userId \in SessionUsers : NewSketchTimer(userId)
    \/ FetchTimerAnswered
    \/ Quiet /\ LoadTimerState
    \/ Quiet /\ IntervalTick
    \/ Quiet /\ LoadUserStats
    \/ Quiet /\ StartTimerClick
    \/ \E arrives \in BOOLEAN : NotifyTimerStartAnswered(arrives)
    \/ NotifyTimerStartLost
    \/ Quiet /\ \E minutes \in PresetMinutes : SetTimerPresetClick(minutes)
    \/ Quiet /\ UploadSketchSend
    \/ /\ Quiet /\ client.pc # "closed" /\ client.uploadBtn = "uploading"
       /\ UploadBegin(client.userId, TRUE)
    \/ Quiet /\ client.userId # 0 /\ UploadSaved(client.userId)
    \/ Quiet /\ client.userId # 0 /\ UploadMarked(client.userId)
    \/ Quiet /\ client.userId # 0 /\ UploadRespond(client.userId)
    \/ Quiet /\ client.userId # 0 /\ UploadFailed(client.userId)
    \/ \E arrives \in BOOLEAN : UploadSketchAnswered(arrives)

SpecGate == Init /\ [][NextGate]_vars

\* one page, opened once, and its countdown second by second: start, pause,
\* resume, reset, presets, the interval and the server's timer
NextCountdown ==
    \/ Quiet /\ SecondPasses
    \/ /\ Quiet /\ client.pc # "closed" /\ client.notify.pc = "sent"
       /\ nextTimeoutId <= MaxTimers
       /\ StartTimer(client.userId, client.notify.duration)
    \/ Quiet /\ \E id \in TimeoutIds : TimerFire(id)
    \/ Quiet /\ \E id \in TimeoutIds, ok \in BOOLEAN : TimerSettle(id, ok)
    \/ Quiet /\ client.pc = "fetching" /\ GetTimer(client.userId)
    \/ client.pc = "closed" /\ \E userId \in {0} \cup SessionUsers : NewSketchTimer(userId)
    \/ FetchTimerAnswered
    \/ Quiet /\ LoadTimerState
    \/ Quiet /\ IntervalTick
    \/ Quiet /\ StartTimerClick
    \/ NotifyTimerStartAnswered(TRUE)
    \/ NotifyTimerStartLost
    \/ Quiet /\ PauseTimerClick
    \/ Quiet /\ ResetTimerClick
    \/ Quiet /\ \E minutes \in PresetMinutes : SetTimerPresetClick(minutes)

SpecCountdown == Init /\ [][NextCountdown]_vars

\* the ways a session gets completed: timers, both upload paths and /done
NextSession ==
    \/ Tick(EndOfClock)
    \/ /\ nextTimeoutId <= MaxTimers
       /\ \E userId \in SessionUsers, duration \in ValidDurations : StartTimer(userId, duration)
    \/ \E id \in TimeoutIds : TimerFire(id)
    \/ \E id \in TimeoutIds, ok \in BOOLEAN : TimerSettle(id, ok)
    \/ \E userId \in SessionUsers : UploadBegin(userId, TRUE)
    \/ \E u \in SessionUsers : UploadSaved(u)
    \/ \E u \in SessionUsers : UploadMarked(u)
    \/ \E u \in SessionUsers : UploadRespond(u)
    \/ \E u \in SessionUsers : PhotoBegin(u)
    \/ \E u \in SessionUsers : PhotoSaved(u)
    \/ \E u \in SessionUsers : PhotoReply(u)
    \/ \E userId \in {0} \cup SessionUsers : DoneBegin(userId)
    \/ \E u \in SessionUsers : DoneChecked(u)
    \/ \E u \in SessionUsers : DoneMarked(u)
    \/ \E u \in SessionUsers : DoneRespond(u)

SpecSession == Init /\ [][NextSession]_vars

\* the database functions and the stats route, with the clock held fixed
NextDb ==
    \/ \E userId \in UserIdInputs : GetStats(userId)
    \/ \E userId \in UserIdInputs : GetStatsRow(userId)
    \/ \E u \in UserIds : CallMarkSessionComplete(u)
    \/ \E u \in UserIds : CallMarkSessionCompleteStub(u)

SpecDb == InitDb /\ [][NextDb]_vars

\* the streak calculator, applied to every list of distinct days that the
\* query of getUserStats can return (most recent day first)
NextStreaks == \E days \in SUBSET StreakDays : CallCalculateStreaks(OrderByDesc(days))

SpecStreaks == InitStreaks /\ [][NextStreaks]_vars

\* a history of uploads and midnights, kept by both variants of the database
\* module, and the stats read from each
NextStats ==
    \/ \E u \in SessionUsers : SaveUpload(u)
    \/ NextDay
    \/ \E userId \in UserIds : GetStats(userId)
    \/ \E userId \in UserIds : GetStatsRow(userId)

SpecStats == InitStats /\ [][NextStats]_vars

\* the calls of saveUpload of one user, interleaved at their awaits
NextConcurrent ==
    \/ \E c \in 1 .. MaxCalls, u \in SessionUsers : SaveUploadInsert(c, u)
    \/ \E c \in 1 .. MaxCalls : SaveUploadSelect(c)
    \/ \E c \in 1 .. MaxCalls : SaveUploadWrite(c)
    \/ \E userId \in SessionUsers : GetStatsRow(userId)

SpecConcurrent == InitStats /\ [][NextConcurrent]_vars

\* an uploads table of a long history: the users of SessionUsers have a row on
\* every day but those of `skipped`, and a second row on the days of `doubled`
HistoryTable(skipped, doubled) ==
    [k \in UserIds \X HistoryDays |->
        IF k[1] \notin SessionUsers \/ k[2] \in skipped THEN 0
        ELSE IF k[2] \in doubled THEN 2 ELSE 1]

\* the clock stands at the start of the last day of a long history
InitHistory ==
    /\ now = DateOf(MaxHistoryDay)
    /\ uploads \in {HistoryTable(skipped, doubled) :
                       skipped \in SUBSET HistoryGaps, doubled \in SUBSET HistoryDoubles}
    /\ activeTimers = <<>>
    /\ timeouts = [id \in TimeoutIds |-> UnusedTimeout]
    /\ nextTimeoutId = 1
    /\ survivedCancel = {}
    /\ sessions = {}
    /\ uploadReq = [u \in UserIds |-> IdleUpload]
    /\ photoReq = [u \in UserIds |-> IdleUpload]
    /\ doneReq = [u \in UserIds |-> IdleUpload]
    /\ statsTable = <<>>
    /\ client = NoPage
    /\ saveCalls = <<>>
    /\ enabledOn = NeverEnabled
    /\ resp = NoResponse

\* the stats of a long history are read
NextHistory == \E userId \in UserIdInputs : GetStats(userId)

SpecHistory == InitHistory /\ [][NextHistory]_vars

TypeOK ==
    /\ now \in Int
    /\ DOMAIN activeTimers \subseteq UserIds
    /\ nextTimeoutId \in 1 .. MaxRaceTimers + 1
    /\ survivedCancel \subseteq TimeoutIds
    /\ sessions \subseteq UserIds \X (Days \cup StreakDays)
    /\ DOMAIN statsTable \subseteq UserIds
    /\ \A u \in UserIds : /\ uploadReq[u].pc \in {"idle", "saving", "marking", "stats"}
                          /\ photoReq[u].pc \in {"idle", "saving", "stats"}
                          /\ doneReq[u].pc \in {"idle", "checking", "marking", "stats"}

(* ======================== the claims =================================== *)
PendingOf(u) == {id \in TimeoutIds : timeouts[id].user = u /\ timeouts[id].state = "pending"}
AwaitingOf(u) == {id \in TimeoutIds : timeouts[id].user = u /\ timeouts[id].state = "awaiting"}

\* C1: in every reachable state each user has at most one pending (scheduled,
\* not yet fired, not cleared) completion trigger.
C1_AtMostOnePendingTrigger ==
    \A u \in UserIds : Cardinality(PendingOf(u)) <= 1

\* C2: when a fired callback resumes after its notification, it does not remove
\* an entry that a later start installed for the same user (an entry whose
\* trigger is another handle).
C2_SettleKeepsLaterEntry ==
    [][\A id \in TimeoutIds :
          LET u == timeouts[id].user IN
          ( /\ timeouts[id].state = "awaiting"
            /\ timeouts'[id].state = "settled"
            /\ MapHas(activeTimers, u)
            /\ activeTimers[u].timeoutId # id )
          => ( /\ MapHas(activeTimers', u)
               /\ activeTimers'[u] = activeTimers[u] )]_vars

\* C3: two completion callbacks of one user are never in progress (fired and
\* not yet finished) at the same time.
C3_NoConcurrentCallbacks ==
    \A u \in UserIds : Cardinality(AwaitingOf(u)) <= 1

\* C4: once cancel(u) has returned success, no timer that u had started before
\* fires later (sends the "session finished" notification): no trigger that is
\* still scheduled for u when cancel returns ever fires.
C4_NoFireAfterCancel ==
    [][\A id \in survivedCancel :
          ~(timeouts[id].state = "pending" /\ timeouts'[id].state = "awaiting")]_vars

\* C5: every entry of the registry, and every {startTime, endTime} pair that
\* start returns, satisfies endTime = startTime + durationMinutes * 60000.
C5_EndTimeIsStartPlusDuration ==
    /\ \A u \in DOMAIN activeTimers :
          activeTimers[u].endTime = activeTimers[u].startTime + activeTimers[u].duration * 60000
    /\ (resp.op = "start" /\ resp.status = 200)
          => resp.endTime = resp.startTime + resp.duration * 60000

C5_Witness ==
    /\ resp.op = "start" /\ resp.status = 200 /\ resp.duration = 1
    /\ MapHas(activeTimers, resp.user)
    /\ activeTimers[resp.user].endTime = resp.endTime
    /\ resp.endTime = resp.startTime + 60000

\* C6: query(u) reports no active timer exactly when the registry has no entry
\* for u; with an entry it reports the stored duration, startTime and endTime,
\* remaining = max(0, endTime - now), and isExpired exactly when remaining = 0.
C6_QueryReport ==
    (resp.op = "query" /\ resp.status = 200) =>
        LET u == resp.user IN
        /\ resp.hasActiveTimer <=> u \in DOMAIN activeTimers
        /\ u \in DOMAIN activeTimers =>
              LET e == activeTimers[u]
                  left == e.endTime - now
              IN /\ resp.duration = e.duration
                 /\ resp.startTime = e.startTime
                 /\ resp.endTime = e.endTime
                 /\ resp.remainingMs = (IF left > 0 THEN left ELSE 0)
                 /\ resp.isExpired <=> (resp.remainingMs = 0)

C6_Witness ==
    /\ resp.op = "query" /\ resp.hasActiveTimer
    /\ resp.remainingMs > 0 /\ resp.remainingMs < resp.duration * 60000
    /\ ~resp.isExpired

\* C7: a query changes neither the registry, nor any trigger, nor the stored
\* uploads and sessions, nor a request in flight.
C7_QueryReadOnly ==
    [][resp'.op = "query" =>
          UNCHANGED <<now, activeTimers, timeouts, nextTimeoutId, survivedCancel,
                      uploads, sessions, uploadReq, photoReq, doneReq, statsTable, client, saveCalls, enabledOn>>]_vars

\* a query has reported isExpired while the entry is still there and its
\* trigger has not fired
C7_Witness ==
    /\ resp.op = "query" /\ resp.isExpired
    /\ MapHas(activeTimers, resp.user)
    /\ activeTimers[resp.user].duration > 0
    /\ now >= activeTimers[resp.user].endTime
    /\ timeouts[activeTimers[resp.user].timeoutId].state = "pending"

\* C8: a start(u, d) immediately followed by query(u) reports an active timer
\* with remaining = d * 60000 minus the elapsed time, and isExpired = false.
C8_StartThenQuery ==
    [][( /\ resp.op = "start" /\ resp.status = 200
         /\ resp'.op = "query" /\ resp'.user = resp.user )
       => ( /\ resp'.hasActiveTimer
            /\ resp'.remainingMs = resp.duration * 60000 - (now' - resp.startTime)
            /\ ~resp'.isExpired )]_vars

\* C9: cancel(u) with no entry for u answers success and changes neither the
\* registry, nor any trigger, nor the stored uploads and sessions.
C9_CancelAbsentIsNoop ==
    [][( /\ resp'.op = "cancel" /\ resp'.user \in UserIds
         /\ ~MapHas(activeTimers, resp'.user) )
       => ( /\ resp'.status = 200 /\ resp'.success
            /\ UNCHANGED <<now, activeTimers, timeouts, nextTimeoutId,
                           uploads, sessions, uploadReq, photoReq, doneReq, statsTable, client, saveCalls, enabledOn>> )]_vars

\* cancel has answered success to a user who never started a timer
C9_Witness ==
    /\ resp.op = "cancel" /\ resp.success /\ resp.user \in UserIds
    /\ ~resp.hasActiveTimer
    /\ sessions # {}

CancelOfPresent(u) ==
    /\ resp'.op = "cancel" /\ resp'.user = u
    /\ MapHas(activeTimers, u)

Fires(id) == timeouts[id].state = "pending" /\ timeouts'[id].state = "awaiting"
Settles(id) == timeouts[id].state = "awaiting" /\ timeouts'[id].state = "settled"

C12_NotifyFailureSwallowed ==
    [][resp'.op = "notifyFailed" =>
          ( /\ ~MapHas(activeTimers', resp'.user)
            /\ \A v \in UserIds \ {resp'.user} :
                  /\ MapHas(activeTimers', v) <=> MapHas(activeTimers, v)
                  /\ MapHas(activeTimers, v) => activeTimers'[v] = activeTimers[v]
            /\ \A id \in TimeoutIds :
                  /\ timeouts'[id].state = "pending" => timeouts'[id] = timeouts[id]
                  /\ timeouts'[id].state = "awaiting" => timeouts'[id] = timeouts[id]
            /\ \E id \in TimeoutIds : Settles(id)
            /\ UNCHANGED <<now, nextTimeoutId, survivedCancel,
                           uploads, sessions, uploadReq, photoReq, doneReq, statsTable, client, saveCalls, enabledOn>> )]_vars

\* a notification has failed, the user's entry is gone and no trigger is
\* scheduled or running
C12_Witness ==
    /\ resp.op = "notifyFailed" /\ resp.user \in UserIds
    /\ ~MapHas(activeTimers, resp.user)
    /\ \A id \in TimeoutIds : timeouts[id].state \notin {"pending", "awaiting"}

DataUnchanged ==
    UNCHANGED <<now, activeTimers, timeouts, nextTimeoutId, survivedCancel,
                uploads, sessions, uploadReq, photoReq, statsTable, client, saveCalls, enabledOn>>

\* C13: markDone(u) when u has no upload dated today fails with the "no upload
\* yet" error (400) and performs no mutation: neither the step that asks
\* hasUploadedToday nor the step that gets the answer "no" changes the
\* sessions, the uploads, the stats or the timer registry and its triggers.
C13_DoneWithoutUploadFails ==
    [][\A u \in UserIds :
          /\ (doneReq[u].pc = "idle" /\ doneReq'[u].pc = "checking") => DataUnchanged
          /\ ( /\ doneReq[u].pc = "checking" /\ doneReq'[u].pc # "checking"
               /\ uploads[<<u, doneReq[u].day>>] = 0 )
             => ( /\ resp' = Response("done", u, 400)
                  /\ doneReq'[u].pc = "idle"
                  /\ DataUnchanged )]_vars

\* /done has been refused for a user who uploaded on another day and whose
\* timer is in the registry
C13_Witness ==
    /\ resp.op = "done" /\ resp.status = 400 /\ resp.user \in UserIds
    /\ uploads[<<resp.user, Today>>] = 0
    /\ \E d \in Days : uploads[<<resp.user, d>>] > 0
    /\ MapHas(activeTimers, resp.user)
    /\ <<resp.user, Today>> \notin sessions

UploadSucceeded ==
    resp.op \in {"upload", "photo"} /\ resp.status = 200 /\ resp.user \in UserIds

\* C14: every successful upload, over HTTP or through the bot's photo handler,
\* has the session of its day recorded as complete for the user when success is
\* reported (the day the operation ran on: today, or the day before when
\* midnight passes while the operation is answering).
C14_UploadCompletesSession ==
    UploadSucceeded =>
        \E d \in {Today - 1, Today} : <<resp.user, d>> \in sessions

\* C15: when an upload of user u reports success, no timer of u is left: the
\* registry has no entry for u (query reports no active timer) and no trigger
\* of u is still scheduled, so no notification will be sent for it.
C15_UploadCancelsTimer ==
    UploadSucceeded =>
        /\ ~MapHas(activeTimers, resp.user)
        /\ \A id \in TimeoutIds :
              timeouts[id].user = resp.user => timeouts[id].state # "pending"

C17_StartValidates ==
    [][resp'.op = "start" =>
          /\ resp'.status = 200 => (resp'.user \in UserIds /\ resp'.duration >= 1)
          /\ resp'.status # 200 =>
                ( /\ resp'.status = 400
                  /\ UNCHANGED <<now, activeTimers, timeouts, nextTimeoutId,
                                 survivedCancel, uploads, sessions, uploadReq,
                                 photoReq, doneReq, statsTable, client, saveCalls, enabledOn>> )]_vars

\* the elements of a list
Elements(seq) == {seq[i] : i \in 1 .. Len(seq)}

\* the length of the run of consecutive days of `days` that ends at day m
RunEndingAt(days, m) ==
    CHOOSE k \in 1 .. Cardinality(days) :
        /\ \A i \in 0 .. k - 1 : m - i \in days
        /\ m - k \notin days

MostRecent(days) == CHOOSE m \in days : \A d \in days : d <= m

StreaksCalled == resp.op = "streaks"

\* C18: for every set of distinct upload days, currentStreak is 0 when the most
\* recent day is neither today nor yesterday (or there is no day), and
\* otherwise it is the length of the maximal run of consecutive days that ends
\* at the most recent day; so [today] gives 1, [today, yesterday, 2 days ago]
\* gives 3, [yesterday, 2 days ago] gives 2 and [today, 5 days ago] gives 1.
C18_CurrentStreak ==
    /\ StreaksCalled =>
          LET days == Elements(resp.uploadDates) IN
          resp.stats.currentStreak =
              IF days = {} THEN 0
              ELSE IF MostRecent(days) \notin {Today, Today - 1} THEN 0
              ELSE RunEndingAt(days, MostRecent(days))
    /\ CalculateStreaks(<<Today>>, Today).currentStreak = 1
    /\ CalculateStreaks(<<Today, Today - 1, Today - 2>>, Today).currentStreak = 3
    /\ CalculateStreaks(<<Today - 1, Today - 2>>, Today).currentStreak = 2
    /\ CalculateStreaks(<<Today, Today - 5>>, Today).currentStreak = 1

\* the calculator has answered 2 for [yesterday, 2 days ago] with older days
\* beyond a gap
C18_Witness ==
    /\ StreaksCalled
    /\ Elements(resp.uploadDates) = {Today - 1, Today - 2, Today - 4}
    /\ resp.stats.currentStreak = 2
    /\ ~resp.stats.hasUploadedToday

\* C19: for every non-empty set of distinct upload days, longestStreak is the
\* length of the longest run of consecutive days anywhere in the set.
C19_LongestStreak ==
    (StreaksCalled /\ resp.uploadDates # <<>>) =>
        LET days == Elements(resp.uploadDates)
            runs == {RunEndingAt(days, m) : m \in days}
        IN /\ resp.stats.longestStreak \in runs
           /\ \A r \in runs : r <= resp.stats.longestStreak

\* the calculator has answered 2 for a history whose longest run lies in the
\* past, behind a gap and a shorter run, with nothing today or yesterday
C19_Witness ==
    /\ StreaksCalled
    /\ Today >= 5
    /\ Elements(resp.uploadDates) = {Today - 2, Today - 4, Today - 5}
    /\ resp.stats.longestStreak = 2
    /\ resp.stats.currentStreak = 0

\* getStats has answered a user who has no uploads: no row in the uploads table
\* of the recomputing variants, no stats row in src/database.js
StatsOfUserWithoutUploads ==
    /\ resp.op \in {"stats", "statsRow"} /\ resp.status = 200
    /\ IF resp.op = "stats" THEN UploadDays(uploads, resp.user) = {}
       ELSE ~MapHas(statsTable, resp.user)

\* C20: calculateStreaks of the empty list returns currentStreak = 0,
\* longestStreak = 0 and hasUploadedToday = false, and getStats gives a user
\* with no uploads these values together with totalUploads = 0.
C20_EmptyHistory ==
    /\ CalculateStreaks(<<>>, Today) =
          [currentStreak |-> 0, longestStreak |-> 0, hasUploadedToday |-> FALSE]
    /\ StatsOfUserWithoutUploads =>
          /\ {"currentStreak", "longestStreak", "totalUploads", "hasUploadedToday"}
                \subseteq DOMAIN resp.stats
          /\ resp.stats.currentStreak = 0
          /\ resp.stats.longestStreak = 0
          /\ resp.stats.totalUploads = 0
          /\ resp.stats.hasUploadedToday = FALSE

\* C21: for every non-empty set of distinct upload days none of which is later
\* than today, the calculator returns longestStreak >= 1 and
\* currentStreak <= longestStreak.
C21_StreakBounds ==
    LET days == Elements(resp.uploadDates) IN
    (StreaksCalled /\ days # {} /\ \A d \in days : d <= Today) =>
        /\ resp.stats.longestStreak >= 1
        /\ resp.stats.currentStreak <= resp.stats.longestStreak

\* the calculator has answered a current streak of 1 (a single day, today)
\* behind which lies a longer run, and for another history a current streak
\* that is itself the longest run
C21_Witness ==
    /\ StreaksCalled
    /\ Today >= 4
    /\ Elements(resp.uploadDates) = {Today, Today - 2, Today - 3, Today - 4}
    /\ resp.stats.currentStreak = 1
    /\ resp.stats.longestStreak = 3

\* C22: hasUploadedToday of the streak result is true exactly when today is
\* one of the upload days.
C22_HasUploadedToday ==
    StreaksCalled =>
        (resp.stats.hasUploadedToday <=> Today \in Elements(resp.uploadDates))

\* the calculator has answered false for a history that holds yesterday and
\* the day before but not today, while the current streak is counted
C22_Witness ==
    /\ StreaksCalled
    /\ Today >= 2
    /\ Elements(resp.uploadDates) = {Today - 1, Today - 2}
    /\ ~resp.stats.hasUploadedToday
    /\ resp.stats.currentStreak = 2

\* the counters of the stats row of src/database.js, 0 for a user without a row
RowCounters(tbl, u) ==
    IF MapHas(tbl, u)
    THEN [currentStreak |-> tbl[u].currentstreak,
          longestStreak |-> tbl[u].longeststreak,
          totalUploads |-> tbl[u].totaluploads]
    ELSE [currentStreak |-> 0, longestStreak |-> 0, totalUploads |-> 0]

C24_IncrementalAgrees ==
    \A u \in UserIds :
        LET row == RowCounters(statsTable, u)
            recomputed == GetUserStats(uploads, u, Today)
        IN /\ row.currentStreak = recomputed.currentStreak
           /\ row.longestStreak = recomputed.longestStreak
           /\ row.totalUploads = recomputed.totalUploads

\* a stats response of the recomputing getUserStats has been sent
StatsRead == resp.op = "stats" /\ resp.status = 200

C27_IncrementalUpload ==
    [][\A u \in UserIds :
          uploads'[<<u, Today>>] = uploads[<<u, Today>>] + 1 =>
             LET after == RowCounters(statsTable', u)
                 before == RowCounters(statsTable, u)
             IN IF ~MapHas(statsTable, u)
                THEN after = [currentStreak |-> 1, longestStreak |-> 1, totalUploads |-> 1]
                ELSE LET last == statsTable[u].lastuploaddate IN
                     /\ last < Today - 1 =>
                           /\ after.currentStreak = 1
                           /\ after.longestStreak = Max(before.longestStreak, 1)
                     /\ last = Today - 1 =>
                           after.currentStreak = before.currentStreak + 1]_vars

\* the registry holds the entry that start installed together with trigger id
HasEntry(id) ==
    \E u \in UserIds : MapHas(activeTimers, u) /\ activeTimers[u].timeoutId = id

\* C28: under fair scheduling (time passes, a due trigger fires, the
\* notification call succeeds or fails) every timer entry installed by start
\* is eventually removed from the registry, and once no new start occurs the
\* registry stays empty, so that query reports no active timer.
C28_EntryEventuallyRemoved ==
    /\ \A id \in TimeoutIds : HasEntry(id) ~> ~HasEntry(id)
    /\ <>[](DOMAIN activeTimers = {})

\* a trigger fired, its notification settled, and that removed the entry
C28_Witness ==
    /\ resp.op \in {"notified", "notifyFailed"}
    /\ timeouts[1].state = "settled"
    /\ ~HasEntry(1)
    /\ ~MapHas(activeTimers, resp.user)

\* the fields of UserStats that every answer of getStats is to carry
StatsFields == {"currentStreak", "longestStreak", "totalUploads", "hasUploadedToday"}

\* C29: the gate of the done operation agrees with the read model: in every
\* reachable state, read at one time of the clock, hasUploadedToday(u) equals
\* the hasUploadedToday field of getStats(u), and getStats(u) carries the
\* fields currentStreak, longestStreak, totalUploads and hasUploadedToday; in
\* the variants that recompute and in the variant that keeps a stats row.
C29_GateAgreesWithStats ==
    \A u \in UserIds :
        LET stats == GetUserStats(uploads, u, Today)
            row == GetUserStatsRow(statsTable, u)
        IN /\ StatsFields \subseteq DOMAIN stats
           /\ HasUploadedToday(uploads, u, Today) = stats.hasUploadedToday
           /\ StatsFields \subseteq DOMAIN row
           /\ HasUploadedTodayRow(statsTable, u, now) = row.hasUploadedToday

\* the answer to the page's query reports an active timer that is not expired
ReportsRunningTimer(timerData) ==
    timerData.status = 200 /\ timerData.hasActiveTimer /\ ~timerData.isExpired

\* C30: after the page is loaded again it enters the running state if and only
\* if the server's answer to its query reports an active timer that is not
\* expired; it then shows timeLeft = floor(remainingMs / 1000) and counts down
\* against the server's endTime; when the answer reports no timer or an expired
\* one, the page stays in its initial state, not running. The answer is what
\* the registry holds when the query is served.
C30_ReloadResumesTimer ==
    [][/\ (client.pc = "fetching" /\ client'.pc = "arrived") =>
             LET d == client'.timerData
                 u == client.userId
             IN /\ d.hasActiveTimer = MapHas(activeTimers, u)
                /\ d.hasActiveTimer =>
                      /\ d.endTime = activeTimers[u].endTime
                      /\ d.remainingMs = Max(0, activeTimers[u].endTime - now)
                      /\ d.isExpired = (activeTimers[u].endTime <= now)
       /\ (client.pc = "arrived" /\ client'.pc = "loaded"
             /\ client'.timerData = client.timerData) =>
             LET d == client.timerData
             IN /\ client'.isRunning <=> ReportsRunningTimer(d)
                /\ ReportsRunningTimer(d) =>
                      /\ client'.timeLeft = d.remainingMs \div MsPerSecond
                      /\ client'.backendTimer.set /\ client'.backendTimer.isRunning
                      /\ client'.backendTimer.endTime = d.endTime
                      /\ client'.timer.active
                /\ ~ReportsRunningTimer(d) =>
                      [client' EXCEPT !.timerData = NoResponse]
                         = SketchTimer(client.userId, "loaded")
       /\ (client.pc = "loaded" /\ client'.pc = "loaded" /\ client.timer.active
             /\ client'.userId = client.userId /\ client' # client) =>
             /\ client'.timeLeft = Max(0, client.backendTimer.endTime - now) \div MsPerSecond
             /\ client'.isRunning = (client'.timeLeft > 0)]_vars

\* the page was loaded again half way through a timer and shows what is left
C30_Witness ==
    /\ client.pc = "loaded" /\ client.isRunning
    /\ MapHas(activeTimers, client.userId)
    /\ client.backendTimer.endTime = activeTimers[client.userId].endTime
    /\ client.timeLeft = (activeTimers[client.userId].endTime - now) \div MsPerSecond
    /\ client.timeLeft > 0
    /\ client.timeLeft < SecondsPerMinute

\* the step is a successful start, a successful cancel, or the timer
\* cancellation of an upload, of user u
RevokesTimersOf(u) ==
    \/ resp'.op \in {"start", "cancel"} /\ resp'.status = 200 /\ resp'.user = u
    \/ uploadReq[u].pc = "marking" /\ uploadReq'[u].pc = "stats"

\* C31: each start causes at most one completion notification, and a
\* notification is sent only for a timer that was neither cancelled, nor
\* superseded by a later start, nor removed by an upload before its trigger
\* fired: a trigger that has fired or was cleared is never scheduled again, and
\* no trigger of user u that is scheduled when a cancel, a start or the timer
\* cancellation of an upload of u is carried out is still scheduled afterwards
\* (a trigger left scheduled fires when it falls due and sends its message).
C31_NotifyOnlyLiveTimers ==
    [][/\ \A id \in TimeoutIds :
             timeouts[id].state \in {"awaiting", "settled", "cleared"}
                => timeouts'[id].state # "pending"
       /\ \A u \in UserIds :
             RevokesTimersOf(u) =>
                \A id \in PendingOf(u) : timeouts'[id].state # "pending"]_vars

\* what the server holds of the timers of user u: the registry entry and the
\* handles that are scheduled or running for u
TimerStateOf(m, ts, u) ==
    <<IF MapHas(m, u) THEN <<m[u]>> ELSE <<>>,
      {<<id, ts[id]>> : id \in {x \in DOMAIN ts : ts[x].user = u}}>>

\* the step is a start, a query, a cancel, the timer cancellation of an upload
\* or a step of the expiry callback, for user a
TimerOperationOf(a) ==
    \/ resp'.op \in {"start", "query", "cancel"} /\ resp'.user = a
    \/ uploadReq[a].pc = "marking" /\ uploadReq'[a].pc = "stats"
    \/ \E id \in TimeoutIds : timeouts[id].user = a /\ (Fires(id) \/ Settles(id))

\* C32: timer operations are isolated per user: a start, query, cancel,
\* upload-triggered cancellation or trigger expiry of user A leaves the
\* registry entry and the triggers of every other user B as they were.
C32_TimersIsolatedPerUser ==
    [][\A a, b \in UserIds :
          (a # b /\ TimerOperationOf(a)) =>
             TimerStateOf(activeTimers', timeouts', b) = TimerStateOf(activeTimers, timeouts, b)]_vars

\* an upload of one user has cancelled that user's timer while the other
\* user's timer is still in the registry with its trigger scheduled
C32_Witness ==
    /\ \E a, b \in UserIds :
          /\ a # b
          /\ uploadReq[a].pc = "stats"
          /\ ~MapHas(activeTimers, a)
          /\ MapHas(activeTimers, b)
          /\ timeouts[activeTimers[b].timeoutId].state = "pending"
    /\ \E id \in TimeoutIds : timeouts[id].state = "cleared"

\* no call of saveUpload is between its first and its last query
AllCallsFinished == \A c \in 1 .. MaxCalls : saveCalls[c].pc \in {"idle", "done", "failed"}

\* C33: in the variant that keeps counters, for every interleaving of the
\* calls of saveUpload of one user (an insert into uploads, a read and then a
\* write of the stats row), once all calls have finished every call has
\* succeeded and totalUploads of the stats row equals the number of upload
\* records stored for the user.
C33_ConcurrentSaveUpload ==
    AllCallsFinished =>
        /\ \A c \in 1 .. MaxCalls : saveCalls[c].pc # "failed"
        /\ \A u \in UserIds : RowCounters(statsTable, u).totalUploads = TotalUploads(uploads, u)

\* C34: in every reachable state each recorded completed session (user, day)
\* is backed by at least one upload record of that user dated the same day,
\* also when the calendar day advances between the steps of an upload or of a
\* done operation.
C34_SessionBackedByUpload ==
    \A s \in sessions : HasUploadedToday(uploads, s[1], s[2])

\* the step answers an upload request of user u with an error
UploadReportsFailure(u) ==
    resp'.op = "upload" /\ resp'.status \in {400, 500} /\ resp'.user = u

\* C35: an upload operation that reports failure has had no effect: no upload
\* record was added, no session record was written, and the user's timer entry
\* and pending trigger are as before the call.  The handler writes the upload
\* record when its call of saveUpload returns, and the session record and the
\* timer cancellation when its call of markSessionComplete returns, so a call
\* that reports failure must not have got that far, and the step that reports
\* the failure must itself write nothing.
C35_FailedUploadHasNoEffect ==
    [][\A u \in {0} \cup UserIds :
          UploadReportsFailure(u) =>
             /\ u # 0 => uploadReq[u].pc \in {"idle", "saving"}
             /\ UNCHANGED <<uploads, sessions, activeTimers, timeouts>>]_vars

\* the page has finished loading: loadTimerState and loadUserStats are over
PageLoaded == client.pc = "loaded" /\ client.statsPc = "done"

\* the upload button is enabled exactly when the page knows of no upload of
\* today and a timer has been started or has completed
C36_GateFollowsFlags ==
    (client.pc # "closed" /\ client.uploadBtn \in {"enabled", "disabled"}) =>
        (client.uploadBtn = "enabled"
            <=> /\ ~client.stats.hasUploadedToday
                /\ client.timerStartedToday \/ client.timerCompleted)

\* C36: the upload button is enabled exactly when the user has not uploaded
\* today and a timer has been started or has completed today, and once it has
\* been enabled it is not disabled again before an upload of today is stored,
\* in every later state of the page, also after the page has been loaded again.
C36_UploadGateStaysOpen ==
    /\ C36_GateFollowsFlags
    /\ (/\ PageLoaded
        /\ enabledOn = Today
        /\ ~HasUploadedToday(uploads, client.userId, Today))
          => client.uploadBtn # "disabled"

\* the page has been started and is paused or reset, its countdown not
\* completed, and its POST /start-timer has been answered or has failed
PausedOrReset ==
    /\ client.pc # "closed" /\ client.userId # 0
    /\ client.notify.pc = "none"
    /\ ~client.isRunning /\ client.timerStartedToday /\ ~client.timerCompleted

\* C37: whenever the page has paused or reset its countdown (isRunning is false
\* after pauseTimer or resetTimer), the server's registry holds no timer of
\* that user and no completion notification of that user is scheduled or
\* being sent.
C37_PausedPageHasNoServerTimer ==
    PausedOrReset =>
        /\ ~MapHas(activeTimers, client.userId)
        /\ PendingOf(client.userId) = {}
        /\ AwaitingOf(client.userId) = {}

\* C38: the timeLeft the page shows is never negative, whatever start, pause,
\* resume, reset, preset selection, the ticks of the countdown (against the
\* server's endTime or by local decrement) and the completion of the timer do.
C38_TimeLeftNeverNegative == client.pc # "closed" => client.timeLeft >= 0
====
